---- MODULE Spec2Model ----
(***************************************************************************)
(* Lifecycle of saucelabs/webserver: Server.Start (src/webserver.go), the  *)
(* listener goroutine it launches, the os/signal subscription it makes and *)
(* the /stop handler that signals the server's own process.                *)
(*                                                                         *)
(* Error values are modelled as wrap chains: a sequence of messages, the   *)
(* outermost first, <<>> for nil.  errors.Is walks the chain.              *)
(***************************************************************************)
EXTENDS Integers, Sequences, FiniteSets, TLC

\* ------------------------------------------------------------ bounds
MaxTime == 13
MaxInFlight == 2
MaxSignals == 2
MaxDuration == 2
MaxHandlerTime == 3
MaxStarts == 2
MaxOpts == 2

\* ------------------------------------------------- program constants
\* Seconds; the defaults New() puts into Timeout.
defaultTimeout == 3
defaultRequestTimeout == 1
defaultShutdownTaskTimeout == 10

ShutdownInFlightTimeout == defaultTimeout
ShutdownTaskTimeout == defaultShutdownTaskTimeout

\* ------------------------------------------------------ error values
Nil == <<>>
ErrServerClosed == <<"http: Server closed">>
DeadlineExceeded == <<"context deadline exceeded">>
OsErrDeadlineExceeded == <<"i/o timeout">>
BindErr == <<"listen tcp: address already in use">>
ServeErr == <<"accept: too many open files">>
ListenerCloseErr == <<"close tcp: listener close failed">>
CloseErr == <<"close tcp: forced close failed">>

GracefulMsg == "failed to gracefully shutdown, timeout reached. Stopping hard..."
HardMsg == "failed to hardly shutdown the server"

\* customerror.NewFailedToError(msg, customerror.WithError(err)): a new
\* error whose message is "failed to <msg>" and whose Unwrap is err.
NewFailedToError(msg, err) == <<msg>> \o err

\* errors.Is(err, target) for a sentinel target: some error of the chain
\* is the sentinel.
ErrorsIs(err, target) == \E i \in 1..Len(err) : err[i] = target[1]

\* isTimeoutError: false for nil.
isTimeoutError(err) ==
    \/ ErrorsIs(err, DeadlineExceeded)
    \/ ErrorsIs(err, OsErrDeadlineExceeded)

\* ---------------------------------------------------------- signals
SIGINT == "SIGINT"
SIGTERM == "SIGTERM"
SIGKILL == "SIGKILL"
NoSignal == "none"
Catchable == {SIGINT, SIGTERM}

VARIABLES
    pc,            \* position of the goroutine running Start
    alive,         \* the process has not been terminated by a signal
    now,           \* clock, seconds
    serverErr,     \* chan error, capacity 1
    osSignals,     \* chan os.Signal, capacity 1
    notified,      \* signals os/signal relays to osSignals
    lst,           \* position of the listener goroutine
    inShutdown,    \* http.Server's shutting-down flag
    keepAlives,    \* http.Server keep-alive setting
    inflight,      \* number of requests being served
    sig,           \* the signal the select received
    deadline,      \* deadline of ctx
    shutdownErr,   \* local shutdownErr
    sleepUntil,    \* wake-up time of time.Sleep
    outcome,       \* value returned by Start
    \* observations of the run
    branch,        \* select case taken: "none", "listener", "signal"
    selectSaw,     \* what was ready when the select chose
    shutdownRes,   \* what Shutdown returned, <<"pending">> before
    closeRes,      \* what Close returned, <<"pending">> before
    shutdownCalls, \* calls of s.server.Shutdown
    closeCalls,    \* calls of s.server.Close
    inflightAtBegin, \* requests in flight when Shutdown was entered
    drainDoneAt,   \* time Shutdown returned
    returnedAt,    \* time Start returned
    terminal,      \* the value the listener goroutine sent, <<"pending">> before
    queuedFrom,    \* who sent each signal waiting in osSignals
    sigFrom,       \* who sent the signal the select received
    relayed,       \* the subscription has been handed a signal
    delivered,     \* signals delivered to the process so far
    intercepted,   \* signals the subscription took after sig was received,
                   \* each with the position of Start when it arrived
    lastResp,      \* how the request that ended last ended
    stopReq,       \* the /stop request whose handler signalled, if any
    launches,      \* listener goroutines started on this instance
    \* construction and the per-request deadline wrapper
    newArgs,       \* what New was called with
    built,         \* what New returned: "none" before the call
    srv,           \* the settings and routes of the Server New built
    rq             \* one request going through http.TimeoutHandler

vars == <<pc, alive, now, serverErr, osSignals, notified, lst, inShutdown,
          keepAlives, inflight, sig, deadline, shutdownErr, sleepUntil,
          outcome, branch, selectSaw, shutdownRes, closeRes, shutdownCalls,
          closeCalls, inflightAtBegin, drainDoneAt, returnedAt, terminal,
          queuedFrom, sigFrom, relayed, delivered, intercepted, lastResp,
          stopReq, launches, newArgs, built, srv, rq>>

ctlVars == <<pc, sig, deadline, shutdownErr, sleepUntil, outcome, branch,
             selectSaw, shutdownRes, closeRes, shutdownCalls, closeCalls,
             drainDoneAt, returnedAt, sigFrom, inflightAtBegin>>
sigVars == <<osSignals, notified, queuedFrom, relayed, delivered,
             intercepted>>
lstVars == <<serverErr, lst, terminal>>
reqObs == <<lastResp, stopReq>>
auxVars == <<newArgs, built, srv, rq>>

Pending == <<"pending">>
NoTime == -1

InitLife ==
    /\ pc = "init"
    /\ alive = TRUE
    /\ now = 0
    /\ serverErr = <<>>
    /\ osSignals = <<>>
    /\ notified = {}
    /\ lst = "none"
    /\ inShutdown = FALSE
    /\ keepAlives = TRUE
    /\ inflight = 0
    /\ sig = NoSignal
    /\ deadline = NoTime
    /\ shutdownErr = Nil
    /\ sleepUntil = NoTime
    /\ outcome = Pending
    /\ branch = "none"
    /\ selectSaw = [err |-> FALSE, sig |-> FALSE]
    /\ shutdownRes = Pending
    /\ closeRes = Pending
    /\ shutdownCalls = 0
    /\ closeCalls = 0
    /\ inflightAtBegin = 0
    /\ drainDoneAt = NoTime
    /\ returnedAt = NoTime
    /\ terminal = Pending
    /\ queuedFrom = <<>>
    /\ sigFrom = "none"
    /\ relayed = FALSE
    /\ delivered = 0
    /\ intercepted = {}
    /\ lastResp = "none"
    /\ stopReq = "none"
    /\ launches = 0

\* ----------------------------------------------------- construction
\* The Timeout budgets New is tried with.
Durations == 0..MaxDuration
Budgets == [read : Durations, request : Durations, inflight : Durations,
            tasks : Durations, write : Durations]

\* The Timeout New() starts from, before the options are applied.
DefaultBudget ==
    [read |-> defaultTimeout, request |-> defaultRequestTimeout,
     inflight |-> defaultTimeout, tasks |-> defaultShutdownTaskTimeout,
     write |-> defaultTimeout]

\* WithTimeout(read, request, inflight, tasks, write) applied to a Timeout:
\* all five fields are overwritten.
WithTimeout_Option(t, b) ==
    [read |-> b.read, request |-> b.request, inflight |-> b.inflight,
     tasks |-> b.tasks, write |-> b.write]

\* Arguments of New: the budget given to WithTimeout, whether name, address
\* and logging levels satisfy their tags, and whether telemetry.NewDefault
\* succeeds.
NewArgs == [t : Budgets, othersValid : BOOLEAN, telemetryOK : BOOLEAN]
NoArgs == [t |-> DefaultBudget, othersValid |-> TRUE, telemetryOK |-> TRUE]

\* Mutant of RequestTimeoutTag: the tag written as ltefield.
RequestTimeoutTag_Lte(t) == t.request <= t.read

\* The tag on Timeout.RequestTimeout: validate:"ltfield=ReadTimeout".
\* The other four durations carry no tag.
RequestTimeoutTag(t) == t.request < t.read

\* validation.ValidateStruct(s): every tag of Server, Logging and Timeout
\* holds.
ValidateStruct(a, t) == a.othersValid /\ RequestTimeoutTag(t)

\* What New returns for arguments a: the telemetry error, the validation
\* error (both with a nil server), or the server.
NewResult(a) ==
    IF ~a.telemetryOK THEN "telemetry error"
    ELSE IF ~ValidateStruct(a, WithTimeout_Option(DefaultBudget, a.t))
    THEN "validation error"
    ELSE "ok"

\* ----------------------------------------------------------- options
\* The handlers New pre-loads unless told otherwise.
DefaultPreLoaded == {"OK", "Liveness", "Stop"}

\* The Server literal New starts from: metrics and telemetry enabled,
\* logging at level error, no telemetry set, an empty router.
DefaultServer ==
    [timeout |-> DefaultBudget, metrics |-> TRUE, telemetryOn |-> TRUE,
     telemetry |-> "nil", logging |-> "error",
     preLoaded |-> DefaultPreLoaded, routes |-> {}]

\* No server: New has not been called, or returned nil.
NoServer == [timeout |-> DefaultBudget, metrics |-> FALSE,
             telemetryOn |-> FALSE, telemetry |-> "nil", logging |-> "none",
             preLoaded |-> {}, routes |-> {}]

\* One option applied to the server under construction.
ApplyOption(s, o) ==
    CASE o.op = "WithTimeout" ->
            [s EXCEPT !.timeout = WithTimeout_Option(s.timeout, o.t)]
      [] o.op = "WithTelemetry" -> [s EXCEPT !.telemetry = "custom"]
      [] o.op = "WithoutTelemetry" -> [s EXCEPT !.telemetryOn = FALSE]
      [] o.op = "WithoutMetrics" -> [s EXCEPT !.metrics = FALSE]
      [] o.op = "WithLoggingOptions" -> [s EXCEPT !.logging = o.level]
      [] o.op = "WithoutLogging" -> [s EXCEPT !.logging = "none"]
      [] o.op = "WithReadiness" ->
            [s EXCEPT !.preLoaded = s.preLoaded \cup {"Readiness"}]
      [] o.op = "WithPreLoadedHandlers" ->
            [s EXCEPT !.routes = s.routes \cup o.handlers]
      [] o.op = "WithoutPreLoadedHandlers" -> [s EXCEPT !.preLoaded = {}]

\* for _, opt := range opts { opt(s) }
RECURSIVE ApplyOptions(_, _)
ApplyOptions(s, opts) ==
    IF opts = <<>> THEN s
    ELSE ApplyOptions(ApplyOption(s, Head(opts)), Tail(opts))

\* The rest of a New that succeeds: the default telemetry when it is
\* enabled and none was given, the pre-loaded handlers added to the
\* router, and the metrics route when metrics are enabled.
Complete(s) ==
    [s EXCEPT !.telemetry = IF s.telemetryOn /\ s.telemetry = "nil"
                            THEN "default" ELSE s.telemetry,
              !.routes = s.routes \cup s.preLoaded
                         \cup (IF s.metrics THEN {"ExpVar"} ELSE {})]

\* The server New(name, address, opts...) returns when it succeeds.
Construct(opts) == Complete(ApplyOptions(DefaultServer, opts))

\* No request is being served by the deadline wrapper.
NoRequest ==
    [st |-> "idle", d |-> 0, elapsed |-> 0, handler |-> "none",
     buf |-> <<>>, timedOut |-> FALSE, client |-> <<>>, discarded |-> 0]

\* The state after New(name, address) with default options returned a
\* server.
Init ==
    /\ InitLife
    /\ newArgs = NoArgs
    /\ built = "ok"
    /\ srv = Construct(<<>>)
    /\ rq = NoRequest

\* The state before New is called.
InitNew ==
    /\ InitLife
    /\ newArgs = NoArgs
    /\ built = "none"
    /\ srv = NoServer
    /\ rq = NoRequest

\* ------------------------------------------------------------ Start
\* Start is called on the server New returned:
\* serverErr := make(chan error, 1); go func() { ... }()
Launch ==
    /\ alive /\ pc = "init"
    /\ built = "ok"
    /\ UNCHANGED auxVars
    /\ launches' = launches + 1
    /\ UNCHANGED reqObs
    /\ serverErr' = <<>>
    /\ lst' = "launched"
    /\ pc' = "notify"
    /\ UNCHANGED <<alive, now, inShutdown, keepAlives, inflight, terminal>>
    /\ UNCHANGED sigVars
    /\ UNCHANGED <<sig, deadline, shutdownErr, sleepUntil, outcome, branch,
                   selectSaw, shutdownRes, closeRes, shutdownCalls,
                   closeCalls, drainDoneAt, returnedAt, sigFrom,
                   inflightAtBegin>>

\* osSignals := make(chan os.Signal, 1); signal.Notify(osSignals, ...)
Notify ==
    /\ alive /\ pc = "notify"
    /\ UNCHANGED auxVars
    /\ UNCHANGED launches
    /\ UNCHANGED reqObs
    /\ osSignals' = <<>>
    /\ queuedFrom' = <<>>
    /\ notified' = {SIGINT, SIGTERM}
    /\ pc' = "select"
    /\ UNCHANGED <<alive, now, inShutdown, keepAlives, inflight>>
    /\ UNCHANGED lstVars
    /\ UNCHANGED <<relayed, delivered, intercepted>>
    /\ UNCHANGED <<sig, deadline, shutdownErr, sleepUntil, outcome, branch,
                   selectSaw, shutdownRes, closeRes, shutdownCalls,
                   closeCalls, drainDoneAt, returnedAt, sigFrom,
                   inflightAtBegin>>

Ready == [err |-> Len(serverErr) > 0, sig |-> Len(osSignals) > 0]

\* Mutant of SelectServerErr: the listener's error falls through to the
\* shutdown sequence instead of being returned.
SelectServerErr_FallsThrough ==
    /\ alive /\ pc = "select"
    /\ UNCHANGED auxVars
    /\ UNCHANGED launches
    /\ UNCHANGED reqObs
    /\ Len(serverErr) > 0
    /\ selectSaw' = Ready
    /\ branch' = "listener"
    /\ serverErr' = Tail(serverErr)
    /\ pc' = "ctx"
    /\ UNCHANGED <<alive, now, inShutdown, keepAlives, inflight, lst, terminal>>
    /\ UNCHANGED sigVars
    /\ UNCHANGED <<sig, deadline, shutdownErr, sleepUntil, shutdownRes,
                   closeRes, shutdownCalls, closeCalls, drainDoneAt, sigFrom,
                   outcome, returnedAt, inflightAtBegin>>

\* case err := <-serverErr: return err
SelectServerErr ==
    /\ alive /\ pc = "select"
    /\ UNCHANGED auxVars
    /\ UNCHANGED launches
    /\ UNCHANGED reqObs
    /\ Len(serverErr) > 0
    /\ selectSaw' = Ready
    /\ branch' = "listener"
    /\ outcome' = Head(serverErr)
    /\ serverErr' = Tail(serverErr)
    /\ returnedAt' = now
    /\ pc' = "returned"
    /\ UNCHANGED <<alive, now, inShutdown, keepAlives, inflight, lst, terminal>>
    /\ UNCHANGED sigVars
    /\ UNCHANGED <<sig, deadline, shutdownErr, sleepUntil, shutdownRes,
                   closeRes, shutdownCalls, closeCalls, drainDoneAt, sigFrom,
                   inflightAtBegin>>

\* case sig := <-osSignals:
SelectSignal ==
    /\ alive /\ pc = "select"
    /\ UNCHANGED auxVars
    /\ UNCHANGED launches
    /\ UNCHANGED reqObs
    /\ Len(osSignals) > 0
    /\ selectSaw' = Ready
    /\ branch' = "signal"
    /\ sig' = Head(osSignals)
    /\ osSignals' = Tail(osSignals)
    /\ sigFrom' = Head(queuedFrom)
    /\ queuedFrom' = Tail(queuedFrom)
    /\ pc' = "consumed"
    /\ UNCHANGED <<alive, now, inShutdown, keepAlives, inflight>>
    /\ UNCHANGED lstVars
    /\ UNCHANGED <<notified, relayed, delivered, intercepted>>
    /\ UNCHANGED <<deadline, shutdownErr, sleepUntil, outcome, shutdownRes,
                   closeRes, shutdownCalls, closeCalls, drainDoneAt,
                   returnedAt, inflightAtBegin>>

\* the two log lines, then signal.Reset(sig)
ResetSignal ==
    /\ alive /\ pc = "consumed"
    /\ UNCHANGED auxVars
    /\ UNCHANGED launches
    /\ UNCHANGED reqObs
    /\ notified' = notified \ {sig}
    /\ pc' = "ctx"
    /\ UNCHANGED <<alive, now, inShutdown, keepAlives, inflight>>
    /\ UNCHANGED lstVars
    /\ UNCHANGED <<osSignals, queuedFrom, relayed, delivered, intercepted>>
    /\ UNCHANGED <<sig, deadline, shutdownErr, sleepUntil, outcome, branch,
                   selectSaw, shutdownRes, closeRes, shutdownCalls,
                   closeCalls, drainDoneAt, returnedAt, sigFrom,
                   inflightAtBegin>>

\* Mutant of WithTimeout: keep-alives are left enabled.
WithTimeout_KeepAlivesOn ==
    /\ alive /\ pc = "ctx"
    /\ UNCHANGED auxVars
    /\ UNCHANGED launches
    /\ UNCHANGED reqObs
    /\ deadline' = now + ShutdownInFlightTimeout
    /\ shutdownErr' = Nil
    /\ pc' = "shutdown"
    /\ UNCHANGED <<alive, now, inShutdown, keepAlives, inflight>>
    /\ UNCHANGED lstVars
    /\ UNCHANGED sigVars
    /\ UNCHANGED <<sig, sleepUntil, outcome, branch, selectSaw, shutdownRes,
                   closeRes, shutdownCalls, closeCalls, drainDoneAt,
                   returnedAt, sigFrom, inflightAtBegin>>

\* ctx, cancel := context.WithTimeout(context.Background(),
\* s.ShutdownInFlightTimeout); var shutdownErr error;
\* s.server.SetKeepAlivesEnabled(false)
WithTimeout ==
    /\ alive /\ pc = "ctx"
    /\ UNCHANGED auxVars
    /\ UNCHANGED launches
    /\ UNCHANGED reqObs
    /\ deadline' = now + ShutdownInFlightTimeout
    /\ shutdownErr' = Nil
    /\ keepAlives' = FALSE
    /\ pc' = "shutdown"
    /\ UNCHANGED <<alive, now, inShutdown, inflight>>
    /\ UNCHANGED lstVars
    /\ UNCHANGED sigVars
    /\ UNCHANGED <<sig, sleepUntil, outcome, branch, selectSaw, shutdownRes,
                   closeRes, shutdownCalls, closeCalls, drainDoneAt,
                   returnedAt, sigFrom, inflightAtBegin>>

\* Mutant of ShutdownBegin: Shutdown starts to wait without closing the
\* listeners.
ShutdownBegin_LeavesListenerOpen ==
    /\ alive /\ pc = "shutdown"
    /\ UNCHANGED auxVars
    /\ UNCHANGED launches
    /\ UNCHANGED reqObs
    /\ shutdownCalls' = shutdownCalls + 1
    /\ inflightAtBegin' = inflight
    /\ pc' = "draining"
    /\ UNCHANGED <<alive, now, inShutdown, keepAlives, inflight>>
    /\ UNCHANGED lstVars
    /\ UNCHANGED sigVars
    /\ UNCHANGED <<sig, deadline, shutdownErr, sleepUntil, outcome, branch,
                   selectSaw, shutdownRes, closeRes, closeCalls, drainDoneAt,
                   returnedAt, sigFrom>>

\* s.server.Shutdown(ctx) is entered: the server is marked shutting down
\* and its listeners are closed; the call then waits for the connections.
ShutdownBegin ==
    /\ alive /\ pc = "shutdown"
    /\ UNCHANGED auxVars
    /\ UNCHANGED launches
    /\ UNCHANGED reqObs
    /\ inShutdown' = TRUE
    /\ shutdownCalls' = shutdownCalls + 1
    /\ inflightAtBegin' = inflight
    /\ pc' = "draining"
    /\ UNCHANGED <<alive, now, keepAlives, inflight>>
    /\ UNCHANGED lstVars
    /\ UNCHANGED sigVars
    /\ UNCHANGED <<sig, deadline, shutdownErr, sleepUntil, outcome, branch,
                   selectSaw, shutdownRes, closeRes, closeCalls, drainDoneAt,
                   returnedAt, sigFrom>>

\* Mutant of ShutdownResults: Shutdown ignores the deadline of its
\* context.
ShutdownResults_IgnoresDeadline ==
    IF inflight = 0 THEN {Nil, ListenerCloseErr}
    ELSE {}

\* Mutant of ShutdownResults: Shutdown gives up on requests in flight
\* without waiting for the deadline.
ShutdownResults_NoWait ==
    IF inflight = 0 THEN {Nil, ListenerCloseErr}
    ELSE {DeadlineExceeded}

\* What Shutdown(ctx) may return now: once no request is in flight, nil or
\* the error of closing the listener; ctx.Err() once the deadline passed
\* with a request still in flight; nothing yet otherwise.
ShutdownResults ==
    IF inflight = 0 THEN {Nil, ListenerCloseErr}
    ELSE IF now >= deadline THEN {DeadlineExceeded}
    ELSE {}

\* The body of "if err := s.server.Shutdown(ctx); err != nil" up to the
\* forced close: the value shutdownErr gets from err.
ShutdownErrFrom(cur, err) ==
    IF isTimeoutError(cur)
    THEN NewFailedToError(GracefulMsg, err)
    ELSE err

\* Mutant of ShutdownReturn: the forced close is only tried after a
\* deadline error.
ShutdownReturn_CloseOnTimeoutOnly ==
    /\ alive /\ pc = "draining"
    /\ UNCHANGED auxVars
    /\ UNCHANGED launches
    /\ UNCHANGED reqObs
    /\ \E err \in ShutdownResults :
        /\ shutdownRes' = err
        /\ IF err # Nil
           THEN /\ shutdownErr' = ShutdownErrFrom(shutdownErr, err)
                /\ pc' = IF isTimeoutError(err) THEN "close" ELSE "check"
           ELSE /\ shutdownErr' = shutdownErr
                /\ pc' = "check"
    /\ drainDoneAt' = now
    /\ UNCHANGED <<alive, now, inShutdown, keepAlives, inflight>>
    /\ UNCHANGED lstVars
    /\ UNCHANGED sigVars
    /\ UNCHANGED <<sig, deadline, sleepUntil, outcome, branch, selectSaw,
                   closeRes, shutdownCalls, closeCalls, returnedAt, sigFrom,
                   inflightAtBegin>>

\* Shutdown returns err.
ShutdownReturn ==
    /\ alive /\ pc = "draining"
    /\ UNCHANGED auxVars
    /\ UNCHANGED launches
    /\ UNCHANGED reqObs
    /\ \E err \in ShutdownResults :
        /\ shutdownRes' = err
        /\ IF err # Nil
           THEN /\ shutdownErr' = ShutdownErrFrom(shutdownErr, err)
                /\ pc' = "close"
           ELSE /\ shutdownErr' = shutdownErr
                /\ pc' = "check"
    /\ drainDoneAt' = now
    /\ UNCHANGED <<alive, now, inShutdown, keepAlives, inflight>>
    /\ UNCHANGED lstVars
    /\ UNCHANGED sigVars
    /\ UNCHANGED <<sig, deadline, sleepUntil, outcome, branch, selectSaw,
                   closeRes, shutdownCalls, closeCalls, returnedAt, sigFrom,
                   inflightAtBegin>>

\* What s.server.Close() may return.
CloseResults == {Nil, CloseErr}

\* "if err := s.server.Close(); err != nil": the value shutdownErr has
\* after the forced close returned err.
ShutdownErrAfterClose(cur, err) ==
    IF err # Nil
    THEN NewFailedToError(HardMsg, err)
    ELSE cur

\* s.server.Close(): listeners and every connection are closed.
HardClose ==
    /\ alive /\ pc = "close"
    /\ UNCHANGED auxVars
    /\ UNCHANGED launches
    /\ lastResp' = IF inflight > 0 THEN "cut" ELSE lastResp
    /\ stopReq' = IF stopReq = "pending" THEN "cut" ELSE stopReq
    /\ closeCalls' = closeCalls + 1
    /\ inShutdown' = TRUE
    /\ inflight' = 0
    /\ \E err \in CloseResults :
        /\ closeRes' = err
        /\ shutdownErr' = ShutdownErrAfterClose(shutdownErr, err)
    /\ pc' = "check"
    /\ UNCHANGED <<alive, now, keepAlives>>
    /\ UNCHANGED lstVars
    /\ UNCHANGED sigVars
    /\ UNCHANGED <<sig, deadline, sleepUntil, outcome, branch, selectSaw,
                   shutdownRes, shutdownCalls, drainDoneAt, returnedAt, sigFrom,
                   inflightAtBegin>>

\* Mutant of CheckShutdownErr: the task pause and the final receive
\* follow a failed shutdown too.
CheckShutdownErr_AlwaysPauses ==
    /\ alive /\ pc = "check"
    /\ UNCHANGED auxVars
    /\ UNCHANGED launches
    /\ UNCHANGED reqObs
    /\ sleepUntil' = now + ShutdownTaskTimeout
    /\ pc' = "sleep"
    /\ UNCHANGED <<outcome, returnedAt>>
    /\ UNCHANGED <<alive, now, inShutdown, keepAlives, inflight>>
    /\ UNCHANGED lstVars
    /\ UNCHANGED sigVars
    /\ UNCHANGED <<sig, deadline, shutdownErr, branch, selectSaw, shutdownRes,
                   closeRes, shutdownCalls, closeCalls, drainDoneAt, sigFrom,
                   inflightAtBegin>>

\* Mutant of CheckShutdownErr: after a failed shutdown Start goes back to
\* waiting in its select.
CheckShutdownErr_BackToSelect ==
    /\ alive /\ pc = "check"
    /\ UNCHANGED auxVars
    /\ UNCHANGED launches
    /\ UNCHANGED reqObs
    /\ IF shutdownErr # Nil
       THEN /\ pc' = "select"
            /\ UNCHANGED <<outcome, returnedAt, sleepUntil>>
       ELSE /\ sleepUntil' = now + ShutdownTaskTimeout
            /\ pc' = "sleep"
            /\ UNCHANGED <<outcome, returnedAt>>
    /\ UNCHANGED <<alive, now, inShutdown, keepAlives, inflight>>
    /\ UNCHANGED lstVars
    /\ UNCHANGED sigVars
    /\ UNCHANGED <<sig, deadline, shutdownErr, branch, selectSaw, shutdownRes,
                   closeRes, shutdownCalls, closeCalls, drainDoneAt, sigFrom,
                   inflightAtBegin>>

\* if shutdownErr != nil { return shutdownErr }; otherwise the log line
\* and the start of time.Sleep(s.ShutdownTaskTimeout).
CheckShutdownErr ==
    /\ alive /\ pc = "check"
    /\ UNCHANGED auxVars
    /\ UNCHANGED launches
    /\ UNCHANGED reqObs
    /\ IF shutdownErr # Nil
       THEN /\ outcome' = shutdownErr
            /\ returnedAt' = now
            /\ pc' = "returned"
            /\ UNCHANGED sleepUntil
       ELSE /\ sleepUntil' = now + ShutdownTaskTimeout
            /\ pc' = "sleep"
            /\ UNCHANGED <<outcome, returnedAt>>
    /\ UNCHANGED <<alive, now, inShutdown, keepAlives, inflight>>
    /\ UNCHANGED lstVars
    /\ UNCHANGED sigVars
    /\ UNCHANGED <<sig, deadline, shutdownErr, branch, selectSaw, shutdownRes,
                   closeRes, shutdownCalls, closeCalls, drainDoneAt, sigFrom,
                   inflightAtBegin>>

\* Mutant of SleepDone: the pause ends early once the listener's terminal
\* value is available.
SleepDone_OrListenerDone == now >= sleepUntil \/ Len(serverErr) > 0

\* time.Sleep returns: not before the duration has elapsed.
SleepDone == now >= sleepUntil

WakeUp ==
    /\ alive /\ pc = "sleep"
    /\ UNCHANGED auxVars
    /\ UNCHANGED launches
    /\ UNCHANGED reqObs
    /\ SleepDone
    /\ pc' = "collect"
    /\ UNCHANGED <<alive, now, inShutdown, keepAlives, inflight>>
    /\ UNCHANGED lstVars
    /\ UNCHANGED sigVars
    /\ UNCHANGED <<sig, deadline, shutdownErr, sleepUntil, outcome, branch,
                   selectSaw, shutdownRes, closeRes, shutdownCalls,
                   closeCalls, drainDoneAt, returnedAt, sigFrom,
                   inflightAtBegin>>

\* Mutant of Collect: the closed sentinel is turned into nil.
Collect_ClosedAsNil ==
    /\ alive /\ pc = "collect"
    /\ UNCHANGED auxVars
    /\ UNCHANGED launches
    /\ UNCHANGED reqObs
    /\ Len(serverErr) > 0
    /\ outcome' = IF Head(serverErr) = ErrServerClosed
                  THEN Nil
                  ELSE Head(serverErr)
    /\ serverErr' = Tail(serverErr)
    /\ returnedAt' = now
    /\ pc' = "returned"
    /\ UNCHANGED <<alive, now, inShutdown, keepAlives, inflight, lst, terminal>>
    /\ UNCHANGED sigVars
    /\ UNCHANGED <<sig, deadline, shutdownErr, sleepUntil, branch, selectSaw,
                   shutdownRes, closeRes, shutdownCalls, closeCalls,
                   drainDoneAt, sigFrom, inflightAtBegin>>

\* Mutant of Collect: ctx.Err() is returned in place of the listener's
\* value.
Collect_ReturnsCtxErr ==
    /\ alive /\ pc = "collect"
    /\ UNCHANGED auxVars
    /\ UNCHANGED launches
    /\ UNCHANGED reqObs
    /\ Len(serverErr) > 0
    /\ outcome' = IF now >= deadline THEN DeadlineExceeded ELSE Nil
    /\ serverErr' = Tail(serverErr)
    /\ returnedAt' = now
    /\ pc' = "returned"
    /\ UNCHANGED <<alive, now, inShutdown, keepAlives, inflight, lst, terminal>>
    /\ UNCHANGED sigVars
    /\ UNCHANGED <<sig, deadline, shutdownErr, sleepUntil, branch, selectSaw,
                   shutdownRes, closeRes, shutdownCalls, closeCalls,
                   drainDoneAt, sigFrom, inflightAtBegin>>

\* Mutant of Collect: after a signal Start reports the server as closed,
\* whatever the listener sent.
Collect_AlwaysClosed ==
    /\ alive /\ pc = "collect"
    /\ UNCHANGED auxVars
    /\ UNCHANGED launches
    /\ UNCHANGED reqObs
    /\ Len(serverErr) > 0
    /\ outcome' = ErrServerClosed
    /\ serverErr' = Tail(serverErr)
    /\ returnedAt' = now
    /\ pc' = "returned"
    /\ UNCHANGED <<alive, now, inShutdown, keepAlives, inflight, lst, terminal>>
    /\ UNCHANGED sigVars
    /\ UNCHANGED <<sig, deadline, shutdownErr, sleepUntil, branch, selectSaw,
                   shutdownRes, closeRes, shutdownCalls, closeCalls,
                   drainDoneAt, sigFrom, inflightAtBegin>>

\* return <-serverErr
Collect ==
    /\ alive /\ pc = "collect"
    /\ UNCHANGED auxVars
    /\ UNCHANGED launches
    /\ UNCHANGED reqObs
    /\ Len(serverErr) > 0
    /\ outcome' = Head(serverErr)
    /\ serverErr' = Tail(serverErr)
    /\ returnedAt' = now
    /\ pc' = "returned"
    /\ UNCHANGED <<alive, now, inShutdown, keepAlives, inflight, lst, terminal>>
    /\ UNCHANGED sigVars
    /\ UNCHANGED <<sig, deadline, shutdownErr, sleepUntil, branch, selectSaw,
                   shutdownRes, closeRes, shutdownCalls, closeCalls,
                   drainDoneAt, sigFrom, inflightAtBegin>>

\* ------------------------------------------------ listener goroutine
\* Mutant of ServerErrCap: the channel is unbuffered.
ServerErrCap_Unbuffered == Len(<<>>)

\* make(chan error, 1)
ServerErrCap == 1

\* Mutant of SendTerminal: the goroutine sends the value and tries again.
SendTerminal_AndRetry(v) ==
    /\ serverErr' = Append(serverErr, v)
    /\ lst' = "launched"
    /\ terminal' = v

\* serverErr <- v, by the listener goroutine, which then ends.  The send
\* waits while the channel is full.
SendTerminal(v) ==
    /\ Len(serverErr) < ServerErrCap
    /\ serverErr' = Append(serverErr, v)
    /\ lst' = "exited"
    /\ terminal' = v

\* ListenAndServe is entered: a server already shutting down answers
\* ErrServerClosed without listening.
ListenAndServe ==
    /\ alive /\ lst = "launched"
    /\ UNCHANGED auxVars
    /\ UNCHANGED launches
    /\ UNCHANGED reqObs
    /\ IF inShutdown
       THEN SendTerminal(ErrServerClosed)
       ELSE lst' = "binding" /\ UNCHANGED <<serverErr, terminal>>
    /\ UNCHANGED <<alive, now, inShutdown, keepAlives, inflight>>
    /\ UNCHANGED sigVars
    /\ UNCHANGED ctlVars

\* net.Listen fails (address in use, permission denied).
BindFail ==
    /\ alive /\ lst = "binding"
    /\ UNCHANGED auxVars
    /\ UNCHANGED launches
    /\ UNCHANGED reqObs
    /\ SendTerminal(BindErr)
    /\ UNCHANGED <<alive, now, inShutdown, keepAlives, inflight>>
    /\ UNCHANGED sigVars
    /\ UNCHANGED ctlVars

\* net.Listen succeeds and Serve registers the listener, unless the server
\* is shutting down by then.
BindOK ==
    /\ alive /\ lst = "binding"
    /\ UNCHANGED auxVars
    /\ UNCHANGED launches
    /\ UNCHANGED reqObs
    /\ IF inShutdown
       THEN SendTerminal(ErrServerClosed)
       ELSE lst' = "serving" /\ UNCHANGED <<serverErr, terminal>>
    /\ UNCHANGED <<alive, now, inShutdown, keepAlives, inflight>>
    /\ UNCHANGED sigVars
    /\ UNCHANGED ctlVars

\* Accept fails for good while the server is not shutting down.
ServeFail ==
    /\ alive /\ lst = "serving" /\ ~inShutdown
    /\ UNCHANGED auxVars
    /\ UNCHANGED launches
    /\ UNCHANGED reqObs
    /\ SendTerminal(ServeErr)
    /\ UNCHANGED <<alive, now, inShutdown, keepAlives, inflight>>
    /\ UNCHANGED sigVars
    /\ UNCHANGED ctlVars

\* The listener was closed by Shutdown or Close: Serve returns
\* ErrServerClosed.
ServeClosed ==
    /\ alive /\ lst = "serving" /\ inShutdown
    /\ UNCHANGED auxVars
    /\ UNCHANGED launches
    /\ UNCHANGED reqObs
    /\ SendTerminal(ErrServerClosed)
    /\ UNCHANGED <<alive, now, inShutdown, keepAlives, inflight>>
    /\ UNCHANGED sigVars
    /\ UNCHANGED ctlVars

\* A connection is accepted and its request dispatched to the handler.
Accept ==
    /\ alive /\ lst = "serving" /\ ~inShutdown
    /\ UNCHANGED auxVars
    /\ UNCHANGED launches
    /\ UNCHANGED reqObs
    /\ inflight < MaxInFlight
    /\ inflight' = inflight + 1
    /\ UNCHANGED <<alive, now, inShutdown, keepAlives>>
    /\ UNCHANGED lstVars
    /\ UNCHANGED sigVars
    /\ UNCHANGED ctlVars

\* A request in flight gets its response.
Finish ==
    /\ alive /\ inflight > 0
    /\ UNCHANGED auxVars
    /\ UNCHANGED launches
    /\ inflight' = inflight - 1
    /\ lastResp' = "handler"
    /\ \/ stopReq = "pending" /\ stopReq' = "answered"
       \/ (stopReq # "pending" \/ inflight > 1) /\ UNCHANGED stopReq
    /\ UNCHANGED <<alive, now, inShutdown, keepAlives>>
    /\ UNCHANGED lstVars
    /\ UNCHANGED sigVars
    /\ UNCHANGED ctlVars

\* Mutant of RequestTimeout: the timeout is also reported to Start as a
\* listener error.
RequestTimeout_Escalates ==
    /\ alive /\ inflight > (IF stopReq = "pending" THEN 1 ELSE 0)
    /\ Len(serverErr) < 1
    /\ UNCHANGED auxVars
    /\ UNCHANGED launches
    /\ inflight' = inflight - 1
    /\ lastResp' = "timeout"
    /\ serverErr' = Append(serverErr, ServeErr)
    /\ UNCHANGED stopReq
    /\ UNCHANGED <<alive, now, inShutdown, keepAlives, lst, terminal>>
    /\ UNCHANGED sigVars
    /\ UNCHANGED ctlVars

\* A request in flight reaches RequestTimeout: the wrapper answers it
\* with the timeout response (ServeTimeout) and the request is over for
\* the server.  The /stop handler returns at once and is not one of them.
RequestTimeout ==
    /\ alive /\ inflight > (IF stopReq = "pending" THEN 1 ELSE 0)
    /\ UNCHANGED auxVars
    /\ UNCHANGED launches
    /\ inflight' = inflight - 1
    /\ lastResp' = "timeout"
    /\ UNCHANGED stopReq
    /\ UNCHANGED <<alive, now, inShutdown, keepAlives>>
    /\ UNCHANGED lstVars
    /\ UNCHANGED sigVars
    /\ UNCHANGED ctlVars

\* ---------------------------------------------------------- signals
\* Mutant of Relay: osSignals made without a buffer, so the relay's
\* non-blocking send finds no room and drops the signal.
Relay_Unbuffered(ch, s) == ch

\* os/signal relays s to osSignals: a send that never blocks, so the
\* signal is dropped when the channel is full.
Relay(ch, s) == IF Len(ch) < 1 THEN Append(ch, s) ELSE ch

\* The process gets signal s: relayed when subscribed, and otherwise the
\* default action, which ends the process.
Receive(s, from) ==
    /\ delivered < MaxSignals
    /\ delivered' = delivered + 1
    /\ IF s \in notified
       THEN /\ osSignals' = Relay(osSignals, s)
            /\ queuedFrom' = Relay(queuedFrom, from)
            /\ relayed' = TRUE
            /\ intercepted' = IF sig # NoSignal
                              THEN intercepted \cup {[s |-> s, at |-> pc]}
                              ELSE intercepted
            /\ UNCHANGED alive
       ELSE /\ alive' = FALSE
            /\ UNCHANGED <<osSignals, queuedFrom, relayed, intercepted>>
    /\ UNCHANGED notified

\* A signal from outside the process.
Deliver ==
    /\ alive
    /\ UNCHANGED auxVars
    /\ UNCHANGED launches
    /\ UNCHANGED reqObs
    /\ \E s \in Catchable \cup {SIGKILL} : Receive(s, "os")
    /\ UNCHANGED <<now, inShutdown, keepAlives, inflight>>
    /\ UNCHANGED lstVars
    /\ UNCHANGED ctlVars

\* The three definitions of handler.Stop in the source: SIGINT or, with
\* hard=true, SIGKILL; SIGINT whatever the query; SIGTERM or, with
\* hard=true, SIGKILL.  Which one is built is not recorded: a request
\* may be served by any of them.
StopVersions == {"int-or-kill", "int", "term-or-kill"}

\* Mutant of StopSignal: every stop request sends SIGKILL.
StopSignal_AlwaysKill(v, hard) == SIGKILL

\* The signal the /stop handler sends to its own process.
StopSignal(v, hard) ==
    IF hard /\ v # "int" THEN SIGKILL
    ELSE IF v = "term-or-kill" THEN SIGTERM
    ELSE SIGINT

\* GET /stop[?hard=true]: the handler writes 200 OK and signals the
\* process it runs in.  Its response is sent when the handler returns
\* (Finish); a handler signals once.
Stop ==
    /\ alive /\ inflight > (IF stopReq = "pending" THEN 1 ELSE 0)
    /\ UNCHANGED auxVars
    /\ UNCHANGED launches
    /\ UNCHANGED lastResp
    /\ \E v \in StopVersions, hard \in BOOLEAN :
        /\ Receive(StopSignal(v, hard), "stop")
        /\ stopReq' = IF StopSignal(v, hard) \in notified THEN "pending"
                      ELSE IF hard /\ v # "int" THEN "killed"
                      ELSE "dropped"
    /\ UNCHANGED <<now, inShutdown, keepAlives, inflight>>
    /\ UNCHANGED lstVars
    /\ UNCHANGED ctlVars

\* ------------------------------------------------------------- time
\* A second passes.  Time is counted while Start is blocked in one of its
\* two timed waits, the drain inside Shutdown(ctx) and time.Sleep; the
\* statements between them take no time.
Tick ==
    /\ alive /\ pc \in {"draining", "sleep"}
    /\ UNCHANGED auxVars
    /\ UNCHANGED launches
    /\ UNCHANGED reqObs
    /\ now < MaxTime
    /\ now' = now + 1
    /\ UNCHANGED <<alive, inShutdown, keepAlives, inflight>>
    /\ UNCHANGED lstVars
    /\ UNCHANGED sigVars
    /\ UNCHANGED ctlVars

\* ----------------------------------- construction, as an operation
lifeVars == <<pc, alive, now, serverErr, osSignals, notified, lst, inShutdown,
              keepAlives, inflight, sig, deadline, shutdownErr, sleepUntil,
              outcome, branch, selectSaw, shutdownRes, closeRes,
              shutdownCalls, closeCalls, inflightAtBegin, drainDoneAt,
              returnedAt, terminal, queuedFrom, sigFrom, relayed, delivered,
              intercepted, lastResp, stopReq, launches>>

\* New(name, address, WithTimeout(...)): options, telemetry, validation.
New ==
    /\ built = "none"
    /\ \E a \in NewArgs :
        /\ newArgs' = a
        /\ built' = NewResult(a)
        /\ srv' = IF NewResult(a) = "ok"
                  THEN Construct(<<[op |-> "WithTimeout", t |-> a.t]>>)
                  ELSE NoServer
    /\ UNCHANGED lifeVars
    /\ UNCHANGED rq

NextNew ==
    \/ New
    \/ Launch

SpecNew == InitNew /\ [][NextNew]_vars

\* ---------------------------------------------------------- NewBasic
\* The options a caller of NewBasic is tried with.
CallerOptions ==
    {[op |-> "WithTelemetry"], [op |-> "WithoutTelemetry"],
     [op |-> "WithoutMetrics"], [op |-> "WithReadiness"],
     [op |-> "WithoutPreLoadedHandlers"],
     [op |-> "WithLoggingOptions", level |-> "info"],
     [op |-> "WithPreLoadedHandlers", handlers |-> {"Liveness"}]}

\* Sequences of at most n caller options.
RECURSIVE OptionLists(_)
OptionLists(n) ==
    IF n = 0 THEN {<<>>}
    ELSE OptionLists(n - 1) \cup
         {Append(l, o) : l \in OptionLists(n - 1), o \in CallerOptions}

\* The defaults of NewBasic.
BasicDefaults ==
    <<[op |-> "WithoutMetrics"], [op |-> "WithoutTelemetry"],
      [op |-> "WithoutLogging"], [op |-> "WithoutPreLoadedHandlers"]>>

\* Mutant of FinalOpts: the caller's options first, the defaults last.
FinalOpts_DefaultsLast(opts) == opts \o BasicDefaults

\* finalOpts := append([]Option{ ...defaults... }, opts...)
FinalOpts(opts) == BasicDefaults \o opts

\* GetTelemetry()
GetTelemetry(s) == s.telemetry

\* NewBasic(name, address, opts...) with a valid name and address: New
\* with the final options.  Telemetry stays disabled and the durations
\* are the defaults, so neither telemetry.NewDefault nor the validation
\* can fail.
NewBasic ==
    /\ built = "none"
    /\ \E opts \in OptionLists(MaxOpts) :
        /\ newArgs' = [opts |-> opts]
        /\ srv' = Construct(FinalOpts(opts))
    /\ built' = "ok"
    /\ UNCHANGED lifeVars
    /\ UNCHANGED rq

NextBasic ==
    \/ NewBasic
    \/ Launch
    \/ Notify
    \/ ListenAndServe
    \/ BindOK

SpecBasic == InitNew /\ [][NextBasic]_vars

\* ------------------------------------ settings changed after New
\* Timeout is an exported field of the exported type Server: between New
\* and Start the caller can assign its durations, and nothing validates
\* them again.
SetTimeout ==
    /\ built = "ok" /\ pc = "init"
    /\ \E b \in Budgets : srv' = [srv EXCEPT !.timeout = b]
    /\ UNCHANGED <<newArgs, built, rq>>
    /\ UNCHANGED lifeVars

NextMutate ==
    \/ New
    \/ SetTimeout
    \/ Launch
    \/ Notify
    \/ ListenAndServe
    \/ BindOK

SpecMutate == InitNew /\ [][NextMutate]_vars

\* --------------------------------------------- Start, called again
\* The caller calls Start once more on the instance whose Start has
\* returned.  Start has no record of an earlier run: it assigns a new
\* http.Server to s.server, makes new channels and local variables, and
\* goes on as the first call did (Launch, Notify, ...).  What belongs to
\* the process stays: the clock, the signals delivered, and the signal
\* subscriptions, which no one stopped.
StartAgain ==
    /\ alive /\ pc = "returned"
    /\ launches < MaxStarts
    /\ pc' = "init"
    /\ serverErr' = <<>>
    /\ lst' = "none"
    /\ inShutdown' = FALSE
    /\ keepAlives' = TRUE
    /\ inflight' = 0
    /\ sig' = NoSignal
    /\ deadline' = NoTime
    /\ shutdownErr' = Nil
    /\ sleepUntil' = NoTime
    /\ outcome' = Pending
    /\ branch' = "none"
    /\ selectSaw' = [err |-> FALSE, sig |-> FALSE]
    /\ shutdownRes' = Pending
    /\ closeRes' = Pending
    /\ shutdownCalls' = 0
    /\ closeCalls' = 0
    /\ inflightAtBegin' = 0
    /\ drainDoneAt' = NoTime
    /\ returnedAt' = NoTime
    /\ terminal' = Pending
    /\ sigFrom' = "none"
    /\ relayed' = FALSE
    /\ intercepted' = {}
    /\ lastResp' = "none"
    /\ stopReq' = "none"
    /\ UNCHANGED <<alive, now, osSignals, queuedFrom, notified, delivered,
                   launches>>
    /\ UNCHANGED auxVars

\* ------------------------------------ the per-request deadline wrapper
\* Start serves http.TimeoutHandler(s.GetRouter(),
\* s.Timeout.RequestTimeout, ErrRequesTimeout.Error()).  One request is
\* followed through it: rq.d is the time its handler takes, rq.buf the
\* wrapper's buffered writer, rq.client what was sent on the connection.

\* s.Timeout after the options were applied.
Timeout == WithTimeout_Option(DefaultBudget, newArgs.t)

\* Mutant of RequestDeadline: the wrapper is given ReadTimeout.
RequestDeadline_Read == Timeout.read

\* The duration handed to http.TimeoutHandler.
RequestDeadline == Timeout.request

\* ErrRequesTimeout.Error(): NewFailedToError("finish request, timed out").
ErrRequesTimeoutMsg == "failed to finish request, timed out"

\* What the handler writes, and what the wrapper writes at the deadline.
HandlerResponse == [code |-> 200, body |-> "OK"]
TimeoutResponse == [code |-> 503, body |-> ErrRequesTimeoutMsg]

\* The listener dispatches a request to the wrapper, which starts the
\* handler in its own goroutine and waits for it or for the deadline.
Dispatch ==
    /\ alive /\ lst = "serving" /\ ~inShutdown
    /\ rq.st = "idle"
    /\ \E d \in 0..MaxHandlerTime :
        rq' = [st |-> "waiting", d |-> d, elapsed |-> 0,
               handler |-> "running", buf |-> <<>>, timedOut |-> FALSE,
               client |-> <<>>, discarded |-> 0]
    /\ UNCHANGED <<newArgs, built, srv>>
    /\ UNCHANGED lifeVars

\* The handler writes its response and returns.  The write goes to the
\* wrapper's buffer, or fails with ErrHandlerTimeout once the deadline
\* has fired.
HandlerReturn ==
    /\ alive /\ rq.handler = "running" /\ rq.elapsed >= rq.d
    /\ rq' = IF rq.timedOut
             THEN [rq EXCEPT !.handler = "returned",
                             !.discarded = rq.discarded + 1]
             ELSE [rq EXCEPT !.handler = "returned",
                             !.buf = <<HandlerResponse>>]
    /\ UNCHANGED <<newArgs, built, srv>>
    /\ UNCHANGED lifeVars

\* case <-done: the buffered response is copied to the connection.
ServeDone ==
    /\ alive /\ rq.st = "waiting" /\ rq.handler = "returned"
    /\ rq' = [rq EXCEPT !.st = "answered", !.client = rq.client \o rq.buf]
    /\ UNCHANGED <<newArgs, built, srv>>
    /\ UNCHANGED lifeVars

\* case <-ctx.Done(): 503 and the fixed message are written, and the
\* buffered writer is marked timed out.
ServeTimeout ==
    /\ alive /\ rq.st = "waiting" /\ rq.elapsed >= RequestDeadline
    /\ rq' = [rq EXCEPT !.st = "answered", !.timedOut = TRUE,
                        !.client = Append(rq.client, TimeoutResponse)]
    /\ UNCHANGED <<newArgs, built, srv>>
    /\ UNCHANGED lifeVars

\* Something is due now: the handler's return, or one of the wrapper's
\* two cases.
RequestStepDue ==
    \/ rq.handler = "running" /\ rq.elapsed >= rq.d
    \/ rq.st = "waiting" /\ rq.handler = "returned"
    \/ rq.st = "waiting" /\ rq.elapsed >= RequestDeadline

\* A second passes for the request.
ReqTick ==
    /\ alive /\ rq.st # "idle"
    /\ ~RequestStepDue
    /\ rq.elapsed < MaxHandlerTime
    /\ rq' = [rq EXCEPT !.elapsed = rq.elapsed + 1]
    /\ UNCHANGED <<newArgs, built, srv>>
    /\ UNCHANGED lifeVars

NextReq ==
    \/ New
    \/ Launch
    \/ Notify
    \/ ListenAndServe
    \/ BindOK
    \/ Dispatch
    \/ HandlerReturn
    \/ ServeDone
    \/ ServeTimeout
    \/ ReqTick

SpecReq == InitNew /\ [][NextReq]_vars

\* ------------------------------------------------------------ claims
Returned == pc = "returned"
ListenerFailed == terminal \in {BindErr, ServeErr}

\* C1: when the select takes the listener's terminal error, Start has
\* returned exactly the value the listener sent, in that same step: no
\* Shutdown call, no forced Close, no drain deadline, no task pause and no
\* signal reset have happened.
C1_ListenerErrorReturnedAtOnce ==
    branch = "listener" =>
        /\ Returned
        /\ outcome = terminal
        /\ ListenerFailed
        /\ shutdownCalls = 0
        /\ closeCalls = 0
        /\ shutdownRes = Pending /\ closeRes = Pending
        /\ deadline = NoTime
        /\ sleepUntil = NoTime
        /\ sig = NoSignal
        /\ notified = Catchable

\* C1 witness: a bind failure was returned while a signal was waiting.
C1_Witness ==
    /\ branch = "listener"
    /\ Returned
    /\ outcome = BindErr
    /\ selectSaw.sig

\* Start has entered s.server.Shutdown.
PastShutdownCall ==
    pc \in {"draining", "close", "check", "sleep", "collect", "returned"}

\* C2: a signal handed to the subscription while Start waits in its select
\* is not lost: it stays queued until the select chooses, a select that
\* finds a signal and no listener value takes the signal branch, and on the
\* signal branch Shutdown is entered exactly once: not before the call is
\* reached, once from then on, never twice.
C2_SignalNotLostShutdownOnce ==
    /\ shutdownCalls <= 1
    /\ (alive /\ pc = "select" /\ relayed) => Len(osSignals) = 1
    /\ (selectSaw.sig /\ ~selectSaw.err) => branch = "signal"
    /\ (branch = "signal" /\ PastShutdownCall) => shutdownCalls = 1
    /\ (branch = "signal" /\ ~PastShutdownCall) => shutdownCalls = 0
    /\ branch # "signal" => shutdownCalls = 0

\* C2 witness: only a signal was ready at the select, and Start went
\* through the shutdown sequence to its return.
C2_Witness ==
    /\ selectSaw = [err |-> FALSE, sig |-> TRUE]
    /\ branch = "signal"
    /\ Returned
    /\ shutdownCalls = 1

\* Start returned on the signal branch after Shutdown reported no error.
CleanStop == Returned /\ branch = "signal" /\ shutdownRes = Nil

\* C3 as claimed: after a drain without error Start returns nil.
C3_Claimed == CleanStop => outcome = Nil

\* C3 amended: after a drain without error Start returns the value the
\* listener goroutine sent, which is never nil: http.ErrServerClosed unless
\* the listener had failed by itself.
C3_ReturnsListenerValue ==
    CleanStop =>
        /\ outcome = terminal
        /\ outcome # Nil
        /\ ~ListenerFailed => outcome = ErrServerClosed

\* C3 witness: requests were in flight when Shutdown was entered, they
\* finished before the deadline, and Start returned the closed sentinel.
C3_Witness ==
    /\ CleanStop
    /\ inflightAtBegin > 0
    /\ drainDoneAt < deadline
    /\ outcome = ErrServerClosed

C5_FullTaskPause ==
    /\ CleanStop => returnedAt - drainDoneAt >= ShutdownTaskTimeout
    /\ (branch = "signal" /\ shutdownRes = Nil /\ drainDoneAt # NoTime
            /\ now - drainDoneAt < ShutdownTaskTimeout)
        => pc \in {"check", "sleep"}

\* C5 witness: the listener's value was sent before the drain ended, a
\* further signal was taken during the pause, and Start returned exactly
\* ShutdownTaskTimeout after the drain.
C5_Witness ==
    /\ CleanStop
    /\ returnedAt - drainDoneAt = ShutdownTaskTimeout
    /\ \E r \in intercepted : r.at = "sleep"

\* Start returned after Shutdown hit the drain deadline.
DrainTimedOut == Returned /\ shutdownRes = DeadlineExceeded

\* C6 as claimed: after a drain that timed out the listener was closed by
\* force and Start returned an error recognisable as a timeout.
C6_Claimed ==
    DrainTimedOut =>
        /\ closeCalls = 1
        /\ outcome # Nil
        /\ isTimeoutError(outcome)

\* C7 as claimed: drain timed out and Close succeeded: Start returns the
\* graceful-timeout wrapper whose cause is Shutdown's deadline error.
C7_Claimed ==
    (DrainTimedOut /\ closeRes = Nil) =>
        outcome = NewFailedToError(GracefulMsg, DeadlineExceeded)

\* C8 as claimed: drain timed out and Close failed: both the timeout and
\* the forced-close failure can be recovered from the returned error.
C8_Claimed ==
    (DrainTimedOut /\ closeRes = CloseErr) =>
        /\ ErrorsIs(outcome, DeadlineExceeded)
        /\ ErrorsIs(outcome, CloseErr)

\* C9 as claimed: once the select has received sig, no later occurrence of
\* sig is taken by the subscription.
C9_Claimed == \A r \in intercepted : r.s # sig

\* C10 as claimed: after the signal branch was entered, no SIGINT or
\* SIGTERM that arrives during the drain wait or the task pause is taken by
\* the subscription.
C10_Claimed == \A r \in intercepted : r.at \notin {"draining", "sleep"}

\* The listening socket is not held: the listener goroutine has ended
\* (failed bind, or Serve returned and closed it) or the server closed it.
ListenerClosed == lst = "exited" \/ inShutdown

\* C11 as claimed: whenever Start has returned, the listener is closed
\* and no signal is subscribed any more.
C11_Claimed == Returned => (ListenerClosed /\ notified = {})

\* Both cases of the select were ready when it chose.
BothReady == selectSaw.err /\ selectSaw.sig

C13_BuiltIffRequestBelowRead ==
    /\ (built # "none" /\ newArgs.othersValid /\ newArgs.telemetryOK) =>
            /\ built = "ok" <=> newArgs.t.request < newArgs.t.read
            /\ newArgs.t.request >= newArgs.t.read =>
                    built = "validation error"
    /\ built # "ok" => (lst = "none" /\ pc = "init" /\ terminal = Pending)

\* New was called with RequestTimeout = ReadTimeout and was refused.
C13_Witness ==
    /\ built = "validation error"
    /\ newArgs.othersValid /\ newArgs.telemetryOK
    /\ newArgs.t.request = newArgs.t.read
    /\ newArgs.t.read > 0
    /\ lst = "none"

HasZero(t) ==
    \/ t.read = 0 \/ t.request = 0 \/ t.inflight = 0
    \/ t.tasks = 0 \/ t.write = 0

\* C14: no server whose budget contains a zero duration is ever started.
C14_Claimed == lst # "none" => ~HasZero(newArgs.t)

RequestOver == rq.st = "answered" /\ rq.handler = "returned"

\* C15: a request gets at most one response and, once answered, exactly
\* one: the handler's own when the handler finishes before
\* RequestTimeout, the wrapper's 503 with the fixed message when it
\* finishes after; never both, and a write the handler attempts after the
\* deadline fired fails and leaves what the client got unchanged.
C15_ExactlyOneResponse ==
    /\ rq.client \in {<<>>, <<HandlerResponse>>, <<TimeoutResponse>>}
    /\ rq.st = "answered" =>
            /\ Len(rq.client) = 1
            /\ rq.d < Timeout.request => rq.client = <<HandlerResponse>>
            /\ rq.d > Timeout.request => rq.client = <<TimeoutResponse>>
            /\ rq.timedOut <=> rq.client = <<TimeoutResponse>>
    /\ rq.st # "answered" => (rq.client = <<>> /\ ~rq.timedOut)
    /\ rq.discarded > 0 =>
            (rq.client = <<TimeoutResponse>> /\ rq.buf = <<>>)

\* A slow handler: the client got the 503 at the deadline and the
\* handler's later write was refused.
C15_Witness ==
    /\ RequestOver
    /\ Timeout.request > 0
    /\ rq.d > Timeout.request
    /\ rq.client = <<TimeoutResponse>>
    /\ rq.discarded = 1

Running == pc = "select" /\ lst = "serving" /\ ~inShutdown
TimedOutStep == inflight' = inflight - 1 /\ lastResp' = "timeout"

\* C16: the step in which a request times out changes nothing of the
\* lifecycle (controller, listener, channels, signal state), and as long
\* as no signal was relayed and the listener sent no value, Start stays
\* at its select with no shutdown step begun, however many requests have
\* timed out.
C16_TimeoutsAreLocal ==
    /\ [][TimedOutStep => /\ UNCHANGED <<alive, inShutdown, keepAlives>>
                          /\ UNCHANGED lstVars
                          /\ UNCHANGED sigVars
                          /\ UNCHANGED ctlVars]_vars
    /\ []((pc \notin {"init", "notify"} /\ ~relayed /\ terminal = Pending)
            => /\ pc = "select"
               /\ outcome = Pending /\ sig = NoSignal
               /\ shutdownCalls = 0 /\ closeCalls = 0
               /\ deadline = NoTime /\ sleepUntil = NoTime)

\* A request has timed out, another is in flight, and the server is
\* still running.
C16_Witness ==
    /\ Running /\ alive
    /\ lastResp = "timeout"
    /\ inflight = 1
    /\ ~relayed /\ terminal = Pending

\* C17: no stop request, whatever its query, ends the server by a path
\* that bypasses the signal subscription.
C17_Claimed == stopReq # "killed"

\* C17, corrected: a stop request without hard=true sends SIGINT or
\* SIGTERM to the own process; it has ended the process by the default
\* action only when that signal was not subscribed (before signal.Notify,
\* or after the controller consumed and reset it), and otherwise it went
\* through the relay, and a stop signal the controller consumed was taken
\* by the signal case of the select like any other.  A stop request
\* with hard=true sends SIGKILL: the process is over and the controller
\* took no step for it.
C17_SoftStopThroughRelay ==
    /\ stopReq \in {"pending", "answered", "cut"} => relayed
    /\ sigFrom = "stop" =>
            (sig \in Catchable /\ branch = "signal" /\ selectSaw.sig)
    /\ stopReq = "dropped" =>
            /\ ~alive
            /\ pc = "notify" \/ (sig \in Catchable /\ sig \notin notified)
    /\ stopReq = "killed" => ~alive

\* A stop request with hard=true ended the running server: Start was
\* still at its select and no shutdown step ran.
C17_Witness ==
    /\ stopReq = "killed" /\ ~alive
    /\ pc = "select" /\ lst = "serving"
    /\ branch = "none" /\ shutdownCalls = 0 /\ ~relayed

CutOff == lastResp = "cut" \/ stopReq = "cut"

\* C18: the shutdown sequence cuts a request off (the /stop request
\* whose handler sent the signal included) only in the forced Close, and
\* that is reached only when Shutdown returned the deadline error at or
\* after the drain deadline with that request still in flight: a request
\* whose handler finishes within ShutdownInFlightTimeout gets its
\* response.
C18_NoCutWithinDrain ==
    /\ CutOff =>
            /\ closeCalls = 1
            /\ shutdownRes = DeadlineExceeded
            /\ inflightAtBegin > 0
            /\ deadline # NoTime /\ drainDoneAt >= deadline
    /\ (pc = "draining" /\ now < deadline) => ~CutOff
    /\ (PastShutdownCall /\ shutdownRes \in {Nil, ListenerCloseErr}) =>
            (~CutOff /\ inflight = 0)

\* The /stop request sent the signal the controller consumed, a request
\* was in flight when the drain began, the drain waited for it, and it
\* and the /stop request were answered by their handlers.
C18_Witness ==
    /\ sigFrom = "stop"
    /\ stopReq = "answered" /\ lastResp = "handler"
    /\ inflightAtBegin > 0
    /\ shutdownRes = Nil /\ drainDoneAt > 0
    /\ CleanStop

DrainToReturn == pc \in {"draining", "close", "check", "sleep", "collect"}

LstRank(l) ==
    CASE l = "none" -> 0
      [] l = "launched" -> 1
      [] l = "binding" -> 2
      [] l = "serving" -> 3
      [] l = "exited" -> 4

\* C20: within one Start run the listener goroutine is launched once, by
\* Start's first step, and only moves forward (launched, binding,
\* serving, exited: no relaunch, no retry after an error); a value is
\* put on serverErr only in the step in which ListenAndServe has
\* returned and the goroutine ends, so at most one value is ever sent,
\* it is never replaced, and the channel never holds more than one.
C20_OneLaunchOneTerminalValue ==
    /\ [][LstRank(lst') >= LstRank(lst)]_vars
    /\ [][(lst' = "launched" /\ lst # "launched") =>
                (pc = "init" /\ lst = "none" /\ pc' = "notify")]_vars
    /\ [][Len(serverErr') > Len(serverErr) =>
                /\ lst # "exited" /\ lst' = "exited"
                /\ terminal = Pending
                /\ serverErr' = <<terminal'>>]_vars
    /\ [][terminal # Pending => terminal' = terminal]_vars
    /\ [](terminal # Pending <=> lst = "exited")
    /\ [](Len(serverErr) <= 1)
    /\ [](serverErr # <<>> => serverErr = <<terminal>>)

\* The serve loop failed, its one value was sent and taken by the
\* select, and the listener stays exited.
C20_Witness ==
    /\ lst = "exited" /\ terminal = ServeErr
    /\ Returned /\ branch = "listener" /\ outcome = ServeErr
    /\ serverErr = <<>>

\* Position of Start in its one pass: starting (init, notify), running
\* (select), graceful shutdown (consumed .. draining), forced close,
\* the check of shutdownErr, task pause, the final receive, returned.
PcRank(p) ==
    CASE p = "init" -> 0
      [] p = "notify" -> 1
      [] p = "select" -> 2
      [] p = "consumed" -> 3
      [] p = "ctx" -> 4
      [] p = "shutdown" -> 5
      [] p = "draining" -> 6
      [] p = "close" -> 7
      [] p = "check" -> 8
      [] p = "sleep" -> 9
      [] p = "collect" -> 10
      [] p = "returned" -> 11

\* C21: within one Start run the position of the controller only moves
\* forward and a step either stays or advances (no state is re-entered);
\* the outcome is set in the one step that returns and never changes;
\* and Start has returned only after its select consumed the listener's
\* terminal value or a termination signal.
C21_ForwardOnlyOneOutcome ==
    /\ [][PcRank(pc') >= PcRank(pc)]_vars
    /\ [][outcome # Pending => outcome' = outcome]_vars
    /\ [][(outcome = Pending /\ outcome' # Pending) =>
                (pc # "returned" /\ pc' = "returned")]_vars
    /\ [][pc = "returned" => pc' = "returned"]_vars
    /\ [](Returned <=> outcome # Pending)
    /\ [](Returned =>
            \/ branch = "listener" /\ sig = NoSignal /\ outcome = terminal
            \/ branch = "signal" /\ sig \in Catchable /\ relayed)
    /\ [](pc \in {"init", "notify", "select"} <=> branch = "none")

\* Start went the whole way: graceful shutdown, forced close, and the
\* return of the shutdown error.
C21_Witness ==
    /\ Returned /\ branch = "signal"
    /\ closeCalls = 1 /\ outcome # Pending /\ outcome = shutdownErr
    /\ shutdownErr # Nil

\* C22: a Server instance launches its listener at most once, however
\* often Start is called on it.
C22_Claimed == launches <= 1

\* C23: the listener is never launched with a budget in which
\* RequestTimeout < ReadTimeout does not hold.
C23_Claimed == lst # "none" => RequestTimeoutTag(srv.timeout)

Has(opts, op) == \E i \in 1..Len(opts) : opts[i].op = op
LastIs(opts, op) == opts # <<>> /\ opts[Len(opts)].op = op

\* C24: a server built by NewBasic has the four defaults applied before
\* the caller's options, the caller's in their order and last: metrics
\* stay off and no default handler is routed; without a telemetry
\* option GetTelemetry() is nil; logging is off unless the caller set it,
\* and a logging option given by the caller is not undone; the
\* handlers given with WithPreLoadedHandlers are routed; and a readiness
\* handler added last is routed too.
C24_BasicDefaultsFirst ==
    built = "ok" =>
        /\ ~srv.metrics /\ ~srv.telemetryOn
        /\ "ExpVar" \notin srv.routes
        /\ "OK" \notin srv.routes /\ "Stop" \notin srv.routes
        /\ "Liveness" \in srv.routes =>
                Has(newArgs.opts, "WithPreLoadedHandlers")
        /\ ~Has(newArgs.opts, "WithTelemetry") => GetTelemetry(srv) = "nil"
        /\ Has(newArgs.opts, "WithTelemetry") => GetTelemetry(srv) = "custom"
        /\ Has(newArgs.opts, "WithPreLoadedHandlers") =>
                "Liveness" \in srv.routes
        /\ srv.logging = IF Has(newArgs.opts, "WithLoggingOptions")
                         THEN "info" ELSE "none"
        /\ LastIs(newArgs.opts, "WithReadiness") =>
                "Readiness" \in srv.routes
        /\ LastIs(newArgs.opts, "WithoutPreLoadedHandlers") =>
                "Readiness" \notin srv.routes

\* The server of TestNewBasic, started: a handler and a logging option,
\* no telemetry, and only the caller's handler routed.
C24_Witness ==
    /\ built = "ok" /\ lst = "serving"
    /\ Len(newArgs.opts) = 2
    /\ newArgs.opts[1].op = "WithPreLoadedHandlers"
    /\ newArgs.opts[2].op = "WithLoggingOptions"
    /\ GetTelemetry(srv) = "nil"
    /\ srv.routes = {"Liveness"}

\* C25: on the signal branch the received signal is reset first, then
\* keep-alives are disabled, then Shutdown is entered, each once:
\* keep-alives are never off before the reset, the drain never begins
\* before both, and none of the three steps is taken a second time.
C25_ResetKeepAliveDrainInOrder ==
    /\ [](~keepAlives => (sig \in Catchable /\ sig \notin notified))
    /\ []((pc = "shutdown" \/ shutdownCalls > 0) =>
            (~keepAlives /\ sig \in Catchable /\ sig \notin notified))
    /\ [](shutdownCalls > 0 <=> (PastShutdownCall /\ branch = "signal"))
    /\ [][notified' # notified =>
            \/ pc = "notify"
            \/ /\ pc = "consumed" /\ pc' = "ctx"
               /\ notified' = notified \ {sig} /\ sig \in notified
               /\ keepAlives /\ shutdownCalls = 0]_vars
    /\ [][keepAlives' # keepAlives =>
            /\ pc = "ctx" /\ pc' = "shutdown"
            /\ keepAlives /\ shutdownCalls = 0]_vars
    /\ [][shutdownCalls' # shutdownCalls =>
            /\ pc = "shutdown" /\ pc' = "draining"
            /\ shutdownCalls = 0 /\ shutdownCalls' = 1]_vars

\* The drain has begun for SIGTERM with a request in flight: SIGTERM is
\* back to its default, SIGINT still subscribed, keep-alives off.
C25_Witness ==
    /\ alive /\ pc = "draining" /\ inflight > 0
    /\ sig = SIGTERM /\ notified = {SIGINT}
    /\ ~keepAlives /\ shutdownCalls = 1

ShutdownFailed == shutdownRes \notin {Pending, Nil}
PastClose == branch = "signal" /\ pc \in {"check", "sleep", "collect", "returned"}

\* C26: Close is called at most once per run, in the step after a
\* Shutdown that returned an error of any kind and never after one that
\* returned nil; and when Start has returned the shutdown error, Close was
\* called and had returned before.
C26_CloseOnceIffShutdownFailed ==
    /\ [](closeCalls <= 1)
    /\ [](closeCalls = 1 => (ShutdownFailed /\ closeRes # Pending))
    /\ [](PastClose => (closeCalls = 1 <=> ShutdownFailed))
    /\ []((Returned /\ branch = "signal" /\ sleepUntil = NoTime) =>
            /\ outcome = shutdownErr /\ outcome # Nil
            /\ closeCalls = 1 /\ closeRes # Pending)
    /\ [][closeCalls' # closeCalls =>
            /\ pc = "close" /\ pc' = "check"
            /\ closeCalls = 0 /\ ShutdownFailed]_vars

\* Shutdown failed with an error that is no deadline error, Close was
\* tried, and Start returned the shutdown error.
C26_Witness ==
    /\ Returned /\ branch = "signal"
    /\ shutdownRes = ListenerCloseErr
    /\ closeCalls = 1 /\ closeRes = Nil
    /\ outcome = ListenerCloseErr

\* C27: when the listener has sent an error other than the closed
\* sentinel, the select took the signal case, and Shutdown returned nil,
\* Start returns that listener error, not nil and not the sentinel, and
\* not before ShutdownTaskTimeout has passed since Shutdown returned;
\* until then the error waits in the channel.
C27_ListenerErrorNotMasked ==
    /\ (CleanStop /\ ListenerFailed) =>
            /\ outcome = terminal
            /\ outcome # Nil /\ outcome # ErrServerClosed
            /\ returnedAt - drainDoneAt >= ShutdownTaskTimeout
    /\ (branch = "signal" /\ ListenerFailed /\ shutdownRes = Nil
            /\ pc \in {"check", "sleep", "collect"}) =>
            serverErr = <<terminal>>

\* The serve loop failed after the signal had been consumed, Shutdown
\* returned nil, and Start returned the serve error after the pause.
C27_Witness ==
    /\ CleanStop /\ terminal = ServeErr
    /\ ~selectSaw.err
    /\ outcome = ServeErr
    /\ returnedAt - drainDoneAt = ShutdownTaskTimeout

ListenerRunning == lst \in {"launched", "binding", "serving"}

\* C29: as long as the listener goroutine has not sent its value the
\* channel has room for it, so the send never waits, whatever Start does
\* or has done: also after Start returned the shutdown error without
\* receiving, the goroutine sends, ends, and the value stays in the
\* buffer.
C29_SendNeverBlocks ==
    /\ ListenerRunning => Len(serverErr) < ServerErrCap
    /\ lst = "exited" => terminal # Pending
    /\ (Returned /\ lst = "exited" /\ branch = "signal"
            /\ sleepUntil = NoTime) => serverErr = <<terminal>>

\* Start returned the shutdown error without reading the channel; the
\* listener goroutine has sent the closed sentinel and ended.
C29_Witness ==
    /\ Returned /\ branch = "signal" /\ closeCalls = 1
    /\ outcome = shutdownErr /\ outcome # Nil
    /\ lst = "exited" /\ serverErr = <<ErrServerClosed>>

Next ==
    \/ Launch
    \/ Notify
    \/ SelectServerErr
    \/ SelectSignal
    \/ ResetSignal
    \/ WithTimeout
    \/ ShutdownBegin
    \/ ShutdownReturn
    \/ HardClose
    \/ CheckShutdownErr
    \/ WakeUp
    \/ Collect
    \/ ListenAndServe
    \/ BindFail
    \/ BindOK
    \/ ServeFail
    \/ ServeClosed
    \/ Accept
    \/ Finish
    \/ RequestTimeout
    \/ Deliver
    \/ Stop
    \/ Tick

Spec == Init /\ [][Next]_vars

\* The lifecycle with a caller that calls Start again after it returned.
NextAgain ==
    \/ Next
    \/ StartAgain

SpecAgain == Init /\ [][NextAgain]_vars

\* The goroutine running Start, the listener goroutine, and the clock
\* each take their next step when they can: goroutines that can run are
\* scheduled, and time passes.
StartSteps ==
    \/ Launch \/ Notify \/ SelectServerErr \/ SelectSignal \/ ResetSignal
    \/ WithTimeout \/ ShutdownBegin \/ ShutdownReturn \/ HardClose
    \/ CheckShutdownErr \/ WakeUp \/ Collect

ListenerSteps ==
    \/ ListenAndServe \/ BindFail \/ BindOK \/ ServeFail \/ ServeClosed

\* A second passes while Start is blocked in a timed wait whose end is
\* not yet due: Shutdown returns as soon as it has a result, and
\* time.Sleep as soon as its duration is over.
TickPunctual ==
    /\ pc = "draining" => ShutdownResults = {}
    /\ pc = "sleep" => ~SleepDone
    /\ Tick

\* The lifecycle with waits that end on time, under signals from outside
\* and requests that end with their handler's response.
LiveNext ==
    \/ StartSteps
    \/ ListenerSteps
    \/ Accept
    \/ Finish
    \/ Deliver
    \/ TickPunctual

LiveSpec ==
    /\ Init /\ [][LiveNext]_vars
    /\ WF_vars(StartSteps)
    /\ WF_vars(ListenAndServe)
    /\ WF_vars(BindFail \/ BindOK)
    /\ WF_vars(ServeClosed)
    /\ WF_vars(TickPunctual)

\* C28: once the select has taken a signal, Start returns, unless a
\* further signal ends the process first: the drain is never waited for
\* beyond its deadline, and a Start that has reached its final receive
\* gets the listener's value, also when Shutdown was called before the
\* listener goroutine had begun to serve.
C28_ReturnsAfterSignal ==
    /\ (sig # NoSignal) ~> (Returned \/ ~alive)
    /\ (pc = "collect") ~> (Returned \/ ~alive)
    /\ [](pc = "draining" => now <= deadline)
    /\ [](pc = "sleep" => now <= sleepUntil)

\* Start waits at its final receive, and the listener goroutine has not
\* yet entered ListenAndServe.
C28_Witness ==
    /\ alive /\ pc = "collect"
    /\ lst = "launched" /\ inShutdown
    /\ serverErr = <<>>

\* C30: after a Shutdown that returned an error and the forced Close,
\* Start is at the check of shutdownErr, which is not nil, or has
\* returned it: without a task pause, without taking the listener's
\* value from the channel, at the time Shutdown returned, and so no
\* later than the drain deadline, Close taking no time of its own.
C30_DirectReturnAfterClose ==
    /\ (ShutdownFailed /\ pc = "close") => shutdownErr # Nil
    /\ (ShutdownFailed /\ PastClose) =>
            /\ shutdownErr # Nil /\ closeCalls = 1
            /\ sleepUntil = NoTime
            /\ pc \in {"check", "returned"}
            /\ terminal # Pending => serverErr = <<terminal>>
            /\ Returned =>
                    /\ outcome = shutdownErr
                    /\ returnedAt = drainDoneAt
                    /\ returnedAt <= deadline
                    /\ deadline = ShutdownInFlightTimeout

\* The drain ran into its deadline, Close was tried, and Start returned
\* at the deadline; the listener's closed sentinel is still in the
\* channel.
C30_Witness ==
    /\ Returned /\ shutdownRes = DeadlineExceeded
    /\ closeCalls = 1 /\ returnedAt = deadline
    /\ serverErr = <<ErrServerClosed>>
====
